---- MODULE Spec2Model ----
(***************************************************************************)
(* The BGPStream stream coordinator (bgpstream.c): lifecycle state, filter  *)
(* and data-interface configuration, and the refill/merge loop of           *)
(* bgpstream_get_next_record.  The four managers the coordinator owns       *)
(* (filter_mgr, di_mgr, input_mgr, reader_mgr) are called by bgpstream.c    *)
(* but implemented elsewhere; their behaviour follows spec.md sections 3    *)
(* and 4.                                                                   *)
(***************************************************************************)
EXTENDS Integers, Sequences, FiniteSets, TLC

(* ------------------------------ bounds --------------------------------- *)

\* number of archive files the backend's catalogue holds
NumFiles == 3
\* configuration calls (add_*, set_*) and starts made on one coordinator
MaxCalls == 3
\* consecutive empty polls the backend answers in live mode
MaxEmpty == 8
\* a poll fails after at most this many waits since the last non-empty poll
MaxWaitsBeforeError == 1

(* --------------------------- program constants -------------------------- *)

\* spec.md section 6: FOREVER = UINT32_MAX, the end of an open interval.  No
\* arithmetic is done on it; it is compared with timestamps only, and the
\* largest integer TLC holds stands for it
BGPSTREAM_FOREVER == 2147483647
\* spec.md section 4.4: initial live-mode wait, in seconds
BACKOFF_MIN == 30
\* spec.md section 4.4: largest live-mode wait, in seconds (1 hour)
BACKOFF_MAX == 3600

\* the status values of bgpstream_t; UNINIT is the malloc'd, never assigned field
StatusValues == {"ALLOCATED", "ON", "OFF"}

\* the owned components, in the order bgpstream_create constructs them
Components == <<"filter_mgr", "di_mgr", "input_mgr", "reader_mgr">>

(* ------------------ the catalogue behind the data interface ------------- *)
(* spec.md section 3, Input Descriptor: type, collector, file timestamp.    *)
(* File i is dumped at time i and holds two records, at i and i+2, so that  *)
(* files of neighbouring windows overlap in time.                           *)

Files == 1..NumFiles

FileTime(f) == f

FileType(f) == IF f % 2 = 1 THEN "RIB" ELSE "UPDATES"

Collector(f) == IF f = 1 THEN "B" ELSE "A"

RecordTimes(f) == <<f, f + 2>>

\* the position of a collector name in the order of names
CollectorOrd(c) == IF c = "A" THEN 1 ELSE 2

\* RIB sorts before UPDATES
TypeOrd(t) == IF t = "RIB" THEN 1 ELSE 2

(* ------------------------------ filter set ------------------------------ *)

\* the intervals add_interval is called with in this model
IntervalInputs == {<<2, 4>>, <<2, BGPSTREAM_FOREVER>>}

\* the recent-interval specifiers: "1h" parses, "bogus" does not
RecentInputs == {"1h", "bogus"}

\* the (type, value) pairs add_filter is called with
FilterInputs == {<<"collector", "A">>}

\* the period add_rib_period_filter is called with
PeriodInputs == {3600}

\* the data interfaces and options of the header's manager
InterfaceInputs == {"csvfile"}

OptionInputs == {<<"csv-file", "catalogue.csv">>}

\* bgpstream_filter_mgr_create: no predicate of any kind
EmptyFilterMgr == [intervals |-> <<>>, filters |-> {}, rib_period |-> 0]

\* bgpstream_filter_mgr_validate: NoInterval when no interval was ever added
FilterValidate(fm) == IF Len(fm.intervals) = 0 THEN -1 ELSE 0

\* bgpstream_time_calc_recent_interval: 0 when the specifier does not parse;
\* "now" is time 4 of the model, so that "1h" gives [2, 4]
RecentParses(spec) == spec = "1h"

RecentStart == 2

RecentEnd == 4

\* fine match of one record: its time lies in an interval and the collector
\* predicate admits it
FineMatch(fm, f, ts) ==
  /\ \E i \in 1..Len(fm.intervals) :
        fm.intervals[i][1] <= ts /\ ts <= fm.intervals[i][2]
  /\ \/ ~ \E p \in fm.filters : p[1] = "collector"
     \/ <<"collector", Collector(f)>> \in fm.filters

\* the first position >= from of file f whose record the filters admit;
\* Len + 1 when there is none (end of file)
RECURSIVE NextMatch(_, _, _)
NextMatch(fm, f, from) ==
  IF from > Len(RecordTimes(f)) THEN from
  ELSE IF FineMatch(fm, f, RecordTimes(f)[from]) THEN from
  ELSE NextMatch(fm, f, from + 1)

(* ---------------------------- data interface ---------------------------- *)

\* bgpstream_di_mgr_create: the header's manager, not blocking
NewDiMgr ==
  [datasource |-> "singlefile", options |-> {}, blocking |-> FALSE,
   backoff_time |-> BACKOFF_MIN, status |-> "OFF"]

\* mutant of NextBackoff: a fixed wait
NextBackoffFixed(t) == t

\* the wait that follows an empty poll: doubled, capped
NextBackoff(t) == IF 2 * t > BACKOFF_MAX THEN BACKOFF_MAX ELSE 2 * t

(* ------------------------------ input queue ----------------------------- *)

\* ordering key of a descriptor: (file timestamp, RIB before UPDATES)
InputBefore(f, g) ==
  \/ FileTime(f) < FileTime(g)
  \/ FileTime(f) = FileTime(g) /\ TypeOrd(FileType(f)) < TypeOrd(FileType(g))

\* sorted insertion, after the descriptors with the same key
RECURSIVE InsertSorted(_, _)
InsertSorted(q, f) ==
  IF q = <<>> THEN <<f>>
  ELSE IF InputBefore(f, Head(q)) THEN <<f>> \o q
  ELSE <<Head(q)>> \o InsertSorted(Tail(q), f)

\* the descriptors cursor+1 .. cursor+k pushed into the queue, last first
RECURSIVE PushAll(_, _, _)
PushAll(q, lo, hi) ==
  IF hi < lo THEN q ELSE PushAll(InsertSorted(q, hi), lo, hi - 1)

(* ------------------------------ reader set ------------------------------ *)

\* the timestamp of a reader's head record
HeadTime(r) == RecordTimes(r.file)[r.pos]

\* merge order: (head timestamp, collector, RIB before UPDATES, insertion)
ReaderBefore(r, s) ==
  LET kr == <<HeadTime(r), CollectorOrd(Collector(r.file)),
              TypeOrd(FileType(r.file)), r.seq>>
      ks == <<HeadTime(s), CollectorOrd(Collector(s.file)),
              TypeOrd(FileType(s.file)), s.seq>>
  IN \E i \in 1..4 : /\ kr[i] < ks[i]
                     /\ \A j \in 1..(i - 1) : kr[j] = ks[j]

\* the reader whose head record is emitted next
MinReader(rs) == CHOOSE r \in rs : \A s \in rs \ {r} : ReaderBefore(r, s)

\* bgpstream_reader_mgr_add: each descriptor of the batch, in order, is
\* opened and primed; one that fails to open (bad) or has no admitted record
\* is dropped, the others enter the set with the next sequence number
RECURSIVE ReaderAdd(_, _, _, _)
ReaderAdd(rm, batch, bad, fm) ==
  IF batch = <<>> THEN rm
  ELSE LET f == Head(batch)
           p == NextMatch(fm, f, 1)
           next == IF f \in bad \/ p > Len(RecordTimes(f)) THEN rm
                   ELSE [readers |-> rm.readers \cup
                                       {[file |-> f, pos |-> p, seq |-> rm.next_seq]},
                         next_seq |-> rm.next_seq + 1]
       IN ReaderAdd(next, Tail(batch), bad, fm)

\* the reader set after its minimum reader r emitted its head: r advanced
\* to its next admitted record, dropped at end of file or on a decode error
ReaderAdvance(rm, r, decodes, fm) ==
  LET p == NextMatch(fm, r.file, r.pos + 1)
      rest == rm.readers \ {r}
  IN [rm EXCEPT !.readers =
        IF ~decodes \/ p > Len(RecordTimes(r.file)) THEN rest
        ELSE rest \cup {[r EXCEPT !.pos = p]}]

\* the caller's record before any delivery, and after bgpstream_record_clear
ClearedRecord == [file |-> 0, pos |-> 0, ts |-> 0]

(* -------------------------------- state --------------------------------- *)

VARIABLES
  bs,           \* the coordinator pointer: "null", "live" or "freed"
  status,       \* bs->status
  filter_mgr,   \* bs->filter_mgr
  di_mgr,       \* bs->di_mgr (bgpstream_datasource_mgr_t)
  input_mgr,    \* bs->input_mgr: the queue of descriptors
  reader_mgr,   \* bs->reader_mgr: open readers and the sequence counter
  record,       \* the caller's bgpstream_record_t
  rc,           \* the value the last int-returning call returned; 0 while
                \* bgpstream_get_next_record runs
  op,           \* the public operation called last
  pc,           \* where bgpstream_get_next_record stands: "idle" between calls
  cursor,       \* backend: the catalogue files already returned by polls
  prev,         \* history: the record delivered before the last one
  last,         \* history: the record delivered last
  errs,         \* history: consecutive ERROR polls of the current call
  last_poll,    \* history: what the last poll of the current call returned
  slept,        \* history: the waits since the last non-empty poll
  delivered,    \* history: the <<file, pos>> records delivered
  failed,       \* history: the files whose reader failed
  skipped,      \* history: the <<file, pos>> records the filters rejected
  batches,      \* history: the cursor after each poll that returned files
  call_slept,   \* history: the current call waited in live mode
  call_batches, \* history: the polls of the current call that returned files
  handed,       \* history: the files handed to the reader set, in order
  seqs,         \* history: the sequence number each opened file's reader got
  tied,         \* history: <<a, b>>: a was delivered before b, at b's time
  started,      \* history: what the last bgpstream_start got from its callees
  ncalls,       \* configuration calls and starts made so far
  nstarts,      \* calls of bgpstream_start
  owned,        \* the components bgpstream_create constructed
  released,     \* history: the components destroyed, in order
  uninit        \* history: the fields read before they were ever assigned

vars == <<bs, status, filter_mgr, di_mgr, input_mgr, reader_mgr, record, rc,
          op, pc, cursor, prev, last, errs, last_poll, slept, delivered, failed,
          skipped, batches, call_slept, call_batches, handed, seqs, tied,
          started, ncalls, nstarts,
          owned, released, uninit>>

lifecycle == <<bs, status, owned, released, uninit>>

stream == <<input_mgr, reader_mgr, record, cursor, prev, last, errs, last_poll,
            slept, delivered, failed, skipped, batches, call_slept,
            call_batches, handed, seqs, tied>>

\* before bgpstream_create: no coordinator
Init ==
  /\ bs = "null"
  /\ status = "UNINIT"
  /\ filter_mgr = EmptyFilterMgr
  /\ di_mgr = NewDiMgr
  /\ input_mgr = <<>>
  /\ reader_mgr = [readers |-> {}, next_seq |-> 1]
  /\ record = ClearedRecord
  /\ rc = 0
  /\ op = <<"none">>
  /\ pc = "idle"
  /\ cursor = 0
  /\ prev = ClearedRecord
  /\ last = ClearedRecord
  /\ errs = 0
  /\ last_poll = "none"
  /\ slept = <<>>
  /\ delivered = {}
  /\ failed = {}
  /\ skipped = {}
  /\ batches = <<>>
  /\ call_slept = FALSE
  /\ call_batches = 0
  /\ handed = <<>>
  /\ seqs = [f \in Files |-> 0]
  /\ tied = {}
  /\ started = [valid |-> 0, di |-> "not_called"]
  /\ ncalls = 0
  /\ nstarts = 0
  /\ owned = {}
  /\ released = <<>>
  /\ uninit = {}


(* ------------------------------ lifecycle ------------------------------- *)

\* the order in which bgpstream_destroy releases the components
DestroyOrder == <<"input_mgr", "reader_mgr", "filter_mgr", "di_mgr">>

\* the components of a sequence that are in set keep, in order
RECURSIVE Restrict(_, _)
Restrict(seq, keep) ==
  IF seq = <<>> THEN <<>>
  ELSE IF Head(seq) \in keep THEN <<Head(seq)>> \o Restrict(Tail(seq), keep)
  ELSE Restrict(Tail(seq), keep)

\* bgpstream_stop: ON becomes OFF, any other status is left alone
StopStatus(st) == IF st = "ON" THEN "OFF" ELSE st

\* bgpstream_create.  failAt names the allocation that fails ("none": all
\* succeed).  After a component fails, bgpstream_destroy runs on the partly
\* built struct: it reads bs->status and the component fields that were
\* never assigned (the struct comes from malloc), so the status it sees is
\* any value.
bgpstream_create(failAt) ==
  /\ pc = "idle" /\ bs = "null" /\ released = <<>>
  /\ op' = <<"create">>
  /\ IF failAt = "malloc" THEN UNCHANGED lifecycle
     ELSE IF failAt = "none"
     THEN /\ bs' = "live"
          /\ status' = "ALLOCATED"
          /\ owned' = {Components[i] : i \in 1..4}
          /\ UNCHANGED <<released, uninit>>
     ELSE \E k \in 1..4 : \E garbage \in StatusValues \cup {"UNINIT"} :
          /\ Components[k] = failAt
          /\ bs' = "freed"
          /\ status' = StopStatus(garbage)
          /\ owned' = {}
          /\ released' = Restrict(DestroyOrder, {Components[i] : i \in 1..(k - 1)})
          /\ uninit' = {"status"} \cup {Components[i] : i \in (k + 1)..4}
  /\ UNCHANGED <<filter_mgr, di_mgr, rc, pc, ncalls, nstarts, started>>
  /\ UNCHANGED stream

\* bgpstream_destroy, with the bgpstream_stop it calls first.  The four
\* components, the backend connection and what was recorded of the stream
\* go with the coordinator
bgpstream_destroy ==
  /\ pc = "idle" /\ bs = "live"
  /\ op' = <<"destroy">>
  /\ status' = StopStatus(status)
  /\ released' = Restrict(DestroyOrder, owned)
  /\ owned' = {}
  /\ bs' = "freed"
  /\ filter_mgr' = EmptyFilterMgr
  /\ di_mgr' = NewDiMgr
  /\ input_mgr' = <<>>
  /\ reader_mgr' = [readers |-> {}, next_seq |-> 1]
  /\ cursor' = 0
  /\ record' = ClearedRecord /\ prev' = ClearedRecord /\ last' = ClearedRecord
  /\ errs' = 0 /\ last_poll' = "none" /\ slept' = <<>> /\ batches' = <<>>
  /\ delivered' = {} /\ failed' = {} /\ skipped' = {}
  /\ call_slept' = FALSE
  /\ call_batches' = 0
  /\ handed' = <<>> /\ seqs' = [f \in Files |-> 0] /\ tied' = {}
  /\ UNCHANGED <<rc, pc, started, ncalls, nstarts, uninit>>

(* ---------------------------- configuration ----------------------------- *)

\* mutant of NotCustomizable: the status is not looked at
NotCustomizableNullOnly == bs = "null"

\* the test that opens the four add_*_filter functions: nothing to
\* customize without a coordinator or outside ALLOCATED
NotCustomizable == bs = "null" \/ status # "ALLOCATED"

\* mutant of SetBlocking: the flag is left as it is
SetBlockingIgnored(d) == d

\* bgpstream_set_live_mode's effect on the manager: di_mgr_set_blocking
SetBlocking(d) == [d EXCEPT !.blocking = TRUE]

\* mutant of RecentEndTime: the computed end is kept in live mode too
RecentEndTimeKept(islive, endtime) == endtime

\* the end of the interval bgpstream_add_recent_interval_filter adds
RecentEndTime(islive, endtime) ==
  IF islive THEN BGPSTREAM_FOREVER ELSE endtime

\* bgpstream_filter_mgr_interval_filter_add: one interval appended
IntervalAdd(fm, b, e) == [fm EXCEPT !.intervals = Append(@, <<b, e>>)]

bgpstream_add_filter(ft, fv) ==
  /\ pc = "idle" /\ bs # "freed"
  /\ ncalls < MaxCalls
  /\ ncalls' = ncalls + 1
  /\ op' = <<"add_filter">>
  /\ IF NotCustomizable THEN UNCHANGED filter_mgr
     ELSE /\ filter_mgr' = [filter_mgr EXCEPT !.filters = @ \cup {<<ft, fv>>}]
  /\ UNCHANGED <<di_mgr, rc, pc, nstarts, started>>
  /\ UNCHANGED lifecycle
  /\ UNCHANGED stream

bgpstream_add_rib_period_filter(period) ==
  /\ pc = "idle" /\ bs # "freed"
  /\ ncalls < MaxCalls
  /\ ncalls' = ncalls + 1
  /\ op' = <<"add_rib_period_filter">>
  /\ IF NotCustomizable THEN UNCHANGED filter_mgr
     ELSE /\ filter_mgr' = [filter_mgr EXCEPT !.rib_period = period]
  /\ UNCHANGED <<di_mgr, rc, pc, nstarts, started>>
  /\ UNCHANGED lifecycle
  /\ UNCHANGED stream

bgpstream_add_recent_interval_filter(interval, islive) ==
  /\ pc = "idle" /\ bs # "freed"
  /\ ncalls < MaxCalls
  /\ ncalls' = ncalls + 1
  /\ op' = <<"add_recent_interval_filter", interval,
             IF islive THEN "live" ELSE "once">>
  /\ IF NotCustomizable \/ ~RecentParses(interval)
     THEN UNCHANGED <<filter_mgr, di_mgr>>
     ELSE /\ di_mgr' = IF islive THEN SetBlocking(di_mgr) ELSE di_mgr
          /\ filter_mgr' = IntervalAdd(filter_mgr, RecentStart,
                                       RecentEndTime(islive, RecentEnd))
  /\ UNCHANGED <<rc, pc, nstarts, started>>
  /\ UNCHANGED lifecycle
  /\ UNCHANGED stream

bgpstream_add_interval_filter(begin_time, end_time) ==
  /\ pc = "idle" /\ bs # "freed"
  /\ ncalls < MaxCalls
  /\ ncalls' = ncalls + 1
  /\ op' = <<"add_interval_filter", begin_time, end_time>>
  /\ IF NotCustomizable THEN UNCHANGED <<filter_mgr, di_mgr>>
     ELSE /\ di_mgr' = IF end_time = BGPSTREAM_FOREVER
                       THEN SetBlocking(di_mgr) ELSE di_mgr
          /\ filter_mgr' = IntervalAdd(filter_mgr, begin_time, end_time)
  /\ UNCHANGED <<rc, pc, nstarts, started>>
  /\ UNCHANGED lifecycle
  /\ UNCHANGED stream

\* bgpstream_set_data_interface_option: handed to the manager as it is,
\* whatever the coordinator's status
bgpstream_set_data_interface_option(name, value) ==
  /\ pc = "idle" /\ bs = "live"
  /\ op' = <<"set_data_interface_option">>
  /\ ncalls < MaxCalls
  /\ ncalls' = ncalls + 1
  /\ di_mgr' = [di_mgr EXCEPT !.options = @ \cup {<<name, value>>}]
  /\ rc' = 0
  /\ UNCHANGED <<filter_mgr, pc, nstarts, started>>
  /\ UNCHANGED lifecycle
  /\ UNCHANGED stream

\* bgpstream_set_data_interface: handed to the manager as it is
bgpstream_set_data_interface(di) ==
  /\ pc = "idle" /\ bs = "live"
  /\ op' = <<"set_data_interface">>
  /\ ncalls < MaxCalls
  /\ ncalls' = ncalls + 1
  /\ di_mgr' = [di_mgr EXCEPT !.datasource = di]
  /\ UNCHANGED <<filter_mgr, rc, pc, nstarts, started>>
  /\ UNCHANGED lifecycle
  /\ UNCHANGED stream

\* bgpstream_set_live_mode: handed to the manager as it is
bgpstream_set_live_mode ==
  /\ pc = "idle" /\ bs = "live"
  /\ op' = <<"set_live_mode">>
  /\ ncalls < MaxCalls
  /\ ncalls' = ncalls + 1
  /\ di_mgr' = SetBlocking(di_mgr)
  /\ UNCHANGED <<filter_mgr, rc, pc, nstarts, started>>
  /\ UNCHANGED lifecycle
  /\ UNCHANGED stream

(* --------------------------------- start -------------------------------- *)

\* mutant of StartOutcome: the status is set to ON before the backend is
\* started and is not taken back when that fails
StartOutcomeOnBeforeBackend(st, valid_rc, di_rc) ==
  IF valid_rc # 0 THEN [status |-> st, rc |-> valid_rc]
  ELSE IF di_rc # 0 THEN [status |-> "ON", rc |-> -1]
  ELSE [status |-> "ON", rc |-> 0]

\* what bgpstream_start makes of the status and returns, from the result of
\* the filter validation and of the backend start
StartOutcome(st, valid_rc, di_rc) ==
  IF valid_rc # 0 THEN [status |-> st, rc |-> valid_rc]
  ELSE IF di_rc # 0 THEN [status |-> "ALLOCATED", rc |-> -1]
  ELSE [status |-> "ON", rc |-> 0]

\* mutant of BackendStartCalled: the backend is started whatever the
\* validation said
BackendStartCalledAlways(valid_rc) == TRUE

\* whether bgpstream_start reaches bgpstream_di_mgr_start: only past the
\* validation
BackendStartCalled(valid_rc) == valid_rc = 0

\* bgpstream_start.  di_rc is what bgpstream_di_mgr_start returns when it
\* is called: 0, or -1 when the backend cannot open its resources
bgpstream_start(di_rc) ==
  /\ pc = "idle" /\ bs = "live"
  /\ ncalls < MaxCalls
  /\ ncalls' = ncalls + 1
  /\ nstarts' = nstarts + 1
  /\ op' = <<"start">>
  /\ LET out == StartOutcome(status, FilterValidate(filter_mgr), di_rc)
     IN /\ status' = out.status
        /\ rc' = out.rc
        /\ di_mgr' = IF BackendStartCalled(FilterValidate(filter_mgr)) /\ di_rc = 0
                     THEN [di_mgr EXCEPT !.status = "ON"] ELSE di_mgr
        /\ started' = [valid |-> FilterValidate(filter_mgr),
                       di |-> IF ~BackendStartCalled(FilterValidate(filter_mgr))
                              THEN "not_called"
                              ELSE IF di_rc = 0 THEN "ok" ELSE "failed"]
  /\ UNCHANGED <<bs, owned, released, uninit, filter_mgr, pc>>
  /\ UNCHANGED stream

(* --------------------------- get_next_record ---------------------------- *)

\* mutant of WrongStatus: the status is not looked at
WrongStatusNullOnly == bs = "null"

\* the test that opens bgpstream_get_next_record: wrong status
WrongStatus == bs = "null" \/ status # "ON"

\* mutant of ReaderMgrIsEmpty: the reader set is taken for empty
ReaderMgrIsEmptyAlways == TRUE

\* mutant of InputMgrIsEmpty: the queue is taken for empty
InputMgrIsEmptyAlways == TRUE

\* the outer loop's test: the reader set holds no reader
ReaderMgrIsEmpty == reader_mgr.readers = {}

\* the inner loop's test: no descriptor is queued
InputMgrIsEmpty == input_mgr = <<>>

\* mutant of QueryOutcome: a negative result is taken for "no more data"
QueryOutcomeErrorAsEnd(n) ==
  IF n <= 0 THEN [pc |-> "idle", returns |-> TRUE, rc |-> 0]
  ELSE [pc |-> "loop", returns |-> FALSE, rc |-> 0]

\* what the coordinator does with num_query_results, the value
\* bgpstream_di_mgr_get_queue returned: leave with 0, leave with -1, or go
\* round the loops again
QueryOutcome(n) ==
  IF n = 0 THEN [pc |-> "idle", returns |-> TRUE, rc |-> 0]
  ELSE IF n < 0 THEN [pc |-> "idle", returns |-> TRUE, rc |-> -1]
  ELSE [pc |-> "loop", returns |-> FALSE, rc |-> 0]

\* mutant of AfterDrain: a batch of which no file could be opened ends the
\* call with "no more data"
AfterDrainEndsWhenEmpty(rm) ==
  IF rm.readers = {} THEN [pc |-> "idle", returns |-> TRUE, rc |-> 0]
  ELSE [pc |-> "loop", returns |-> FALSE, rc |-> 0]

\* mutant of AfterDrain: after a batch of which no file could be opened the
\* call waits for a reader and never polls again
AfterDrainHangsWhenEmpty(rm) ==
  IF rm.readers = {} THEN [pc |-> "wait_reader", returns |-> FALSE, rc |-> 0]
  ELSE [pc |-> "loop", returns |-> FALSE, rc |-> 0]

\* mutant of AfterDrain: a batch of which no file could be opened ends the
\* call with an error
AfterDrainFailsWhenEmpty(rm) ==
  IF rm.readers = {} THEN [pc |-> "idle", returns |-> TRUE, rc |-> -1]
  ELSE [pc |-> "loop", returns |-> FALSE, rc |-> 0]

\* where the call goes after a batch was handed to the reader set rm: back
\* to the outer loop's test, whether or not a reader could be opened
AfterDrain(rm) == [pc |-> "loop", returns |-> FALSE, rc |-> 0]

\* the call stands in bgpstream_di_mgr_get_queue: it reached the query with
\* both stages empty, or it slept there and queries again
InGetQueue ==
  \/ pc = "loop" /\ ReaderMgrIsEmpty /\ InputMgrIsEmpty
  \/ pc = "get_queue"

\* entry: the status test, then bgpstream_record_clear
bgpstream_get_next_record ==
  /\ pc = "idle" /\ bs # "freed"
  /\ op' = <<"get_next_record">>
  /\ IF WrongStatus
     THEN /\ rc' = -1
          /\ UNCHANGED <<pc, record, last_poll, errs, call_slept,
                         call_batches>>
     ELSE /\ pc' = "loop"
          /\ record' = ClearedRecord
          /\ last_poll' = "none"
          /\ errs' = 0
          /\ call_slept' = FALSE
          /\ call_batches' = 0
          /\ rc' = 0
  /\ UNCHANGED <<filter_mgr, di_mgr, input_mgr, reader_mgr, cursor, prev,
                 last, slept, delivered, failed, skipped,
                 batches, started, ncalls, nstarts>>
  /\ UNCHANGED <<handed, seqs, tied>>
  /\ UNCHANGED lifecycle

\* the coordinator takes the value n of bgpstream_di_mgr_get_queue
TakeQueryResult(n) ==
  LET out == QueryOutcome(n)
  IN /\ pc' = out.pc
     /\ rc' = IF out.returns THEN out.rc ELSE rc

\* bgpstream_di_mgr_get_queue returns a negative value: the backend query
\* failed
di_mgr_get_queue_error ==
  /\ InGetQueue
  /\ Len(slept) <= MaxWaitsBeforeError
  /\ errs' = errs + 1
  /\ last_poll' = "ERROR"
  /\ TakeQueryResult(-1)
  /\ UNCHANGED <<filter_mgr, di_mgr, input_mgr, reader_mgr, record, op,
                 cursor, prev, last, slept, delivered, failed, skipped,
                 batches, call_slept, started, ncalls, nstarts>>
  /\ UNCHANGED <<handed, seqs, tied>>
  /\ UNCHANGED call_batches
  /\ UNCHANGED lifecycle

\* bgpstream_di_mgr_get_queue returns 0: not blocking, and the catalogue has
\* no further file
di_mgr_get_queue_empty ==
  /\ InGetQueue
  /\ ~di_mgr.blocking
  /\ cursor = NumFiles
  /\ errs' = 0
  /\ last_poll' = "EMPTY"
  /\ TakeQueryResult(0)
  /\ UNCHANGED <<filter_mgr, di_mgr, input_mgr, reader_mgr, record, op,
                 cursor, prev, last, slept, delivered, failed, skipped,
                 batches, call_slept, started, ncalls, nstarts>>
  /\ UNCHANGED <<handed, seqs, tied>>
  /\ UNCHANGED call_batches
  /\ UNCHANGED lifecycle

\* inside bgpstream_di_mgr_get_queue, blocking: the backend has nothing
\* (yet), the manager sleeps backoff_time, doubles it up to the maximum and
\* queries again
di_mgr_get_queue_sleep ==
  /\ InGetQueue
  /\ di_mgr.blocking
  /\ Len(slept) < MaxEmpty
  /\ slept' = Append(slept, di_mgr.backoff_time)
  /\ di_mgr' = [di_mgr EXCEPT !.backoff_time = NextBackoff(@)]
  /\ errs' = 0
  /\ last_poll' = "EMPTY"
  /\ pc' = "get_queue"
  /\ call_slept' = TRUE
  /\ UNCHANGED <<filter_mgr, input_mgr, reader_mgr, record, rc, op, cursor,
                 prev, last, delivered, failed, skipped, batches,
                 started, ncalls, nstarts>>
  /\ UNCHANGED <<handed, seqs, tied>>
  /\ UNCHANGED call_batches
  /\ UNCHANGED lifecycle

\* bgpstream_di_mgr_get_queue returns n > 0: the next n files of the
\* catalogue are queued in key order and the wait is reset
di_mgr_get_queue_results(n) ==
  /\ InGetQueue
  /\ n >= 1 /\ cursor + n <= NumFiles
  /\ input_mgr' = PushAll(input_mgr, cursor + 1, cursor + n)
  /\ cursor' = cursor + n
  /\ batches' = Append(batches, cursor + n)
  /\ call_batches' = call_batches + 1
  /\ di_mgr' = [di_mgr EXCEPT !.backoff_time = BACKOFF_MIN]
  /\ slept' = <<>>
  /\ errs' = 0
  /\ last_poll' = "OK"
  /\ TakeQueryResult(n)
  /\ UNCHANGED <<filter_mgr, reader_mgr, record, op, prev, last, delivered,
                 failed, skipped, call_slept, started, ncalls, nstarts>>
  /\ UNCHANGED <<handed, seqs, tied>>
  /\ UNCHANGED lifecycle

\* the body of the outer loop after the inner one: the first k queued
\* descriptors (get_queue_to_process) are handed to the reader set, which
\* opens them, and are gone from the queue; the files in bad cannot be
\* opened
drain_input_queue(k, bad) ==
  /\ pc = "loop" /\ ReaderMgrIsEmpty /\ ~InputMgrIsEmpty
  /\ k \in 1..Len(input_mgr)
  /\ LET batch == SubSeq(input_mgr, 1, k)
         opened == {batch[i] : i \in 1..k} \ bad
         out == AfterDrain(ReaderAdd(reader_mgr, batch, bad, filter_mgr))
     IN /\ bad \subseteq {batch[i] : i \in 1..k}
        /\ reader_mgr' = ReaderAdd(reader_mgr, batch, bad, filter_mgr)
        /\ failed' = failed \cup bad
        /\ handed' = handed \o batch
        /\ seqs' = [f \in Files |->
                      IF \E r \in reader_mgr'.readers : r.file = f
                      THEN (CHOOSE r \in reader_mgr'.readers : r.file = f).seq
                      ELSE seqs[f]]
        /\ skipped' = skipped \cup UNION
              {{<<f, q>> : q \in 1..(NextMatch(filter_mgr, f, 1) - 1)} :
                 f \in opened}
        /\ pc' = out.pc
        /\ rc' = IF out.returns THEN out.rc ELSE rc
  /\ input_mgr' = SubSeq(input_mgr, k + 1, Len(input_mgr))
  /\ UNCHANGED <<filter_mgr, di_mgr, record, op, cursor, prev, last, errs,
                 last_poll, slept, delivered, batches, call_slept,
                 started, ncalls, nstarts>>
  /\ UNCHANGED tied
  /\ UNCHANGED call_batches
  /\ UNCHANGED lifecycle

\* after the loops: bgpstream_reader_mgr_get_next_record fills the record
\* from the minimum reader and advances it; decodes tells whether the
\* reader's next record can be decoded
emit_record(decodes) ==
  /\ pc = "loop" /\ ~ReaderMgrIsEmpty
  /\ LET r == MinReader(reader_mgr.readers)
     IN /\ decodes \/ r.pos < Len(RecordTimes(r.file))
        /\ record' = [file |-> r.file, pos |-> r.pos, ts |-> HeadTime(r)]
        /\ delivered' = delivered \cup {<<r.file, r.pos>>}
        /\ tied' = tied \cup
                     {<<x, <<r.file, r.pos>>>> :
                        x \in {y \in delivered :
                                 RecordTimes(y[1])[y[2]] = HeadTime(r)}}
        /\ reader_mgr' = ReaderAdvance(reader_mgr, r, decodes, filter_mgr)
        /\ failed' = IF decodes THEN failed ELSE failed \cup {r.file}
        /\ skipped' = IF ~decodes THEN skipped
                      ELSE skipped \cup
                           {<<r.file, q>> : q \in (r.pos + 1)..
                              (NextMatch(filter_mgr, r.file, r.pos + 1) - 1)}
  /\ prev' = last
  /\ last' = record'
  /\ rc' = 1
  /\ pc' = "idle"
  /\ UNCHANGED <<filter_mgr, di_mgr, input_mgr, op, cursor, errs, last_poll,
                 slept, batches, call_slept, started, ncalls,
                 nstarts>>
  /\ UNCHANGED <<handed, seqs>>
  /\ UNCHANGED call_batches
  /\ UNCHANGED lifecycle

(* ----------------------------- specification ---------------------------- *)

Next ==
  \/ \E failAt \in {"none", "malloc"} \cup {Components[i] : i \in 1..4} :
        bgpstream_create(failAt)
  \/ bgpstream_destroy
  \/ \E f \in FilterInputs : bgpstream_add_filter(f[1], f[2])
  \/ \E p \in PeriodInputs : bgpstream_add_rib_period_filter(p)
  \/ \E i \in RecentInputs : \E l \in BOOLEAN :
        bgpstream_add_recent_interval_filter(i, l)
  \/ \E i \in IntervalInputs : bgpstream_add_interval_filter(i[1], i[2])
  \/ \E o \in OptionInputs : bgpstream_set_data_interface_option(o[1], o[2])
  \/ \E d \in InterfaceInputs : bgpstream_set_data_interface(d)
  \/ bgpstream_set_live_mode
  \/ \E di_rc \in {0, -1} : bgpstream_start(di_rc)
  \/ bgpstream_get_next_record
  \/ di_mgr_get_queue_error
  \/ di_mgr_get_queue_empty
  \/ di_mgr_get_queue_sleep
  \/ \E n \in 1..NumFiles : di_mgr_get_queue_results(n)
  \/ \E k \in 1..NumFiles : \E bad \in SUBSET Files : drain_input_queue(k, bad)
  \/ \E decodes \in BOOLEAN : emit_record(decodes)

Spec == Init /\ [][Next]_vars

\* a running bgpstream_get_next_record is sequential code: once the queue
\* holds descriptors it hands them to the reader set, and once a reader is
\* open it returns its record.  What the backend answers, and when the
\* caller calls, is left open.
FairSpec ==
  /\ Spec
  /\ WF_vars(\E k \in 1..NumFiles : \E bad \in SUBSET Files :
                drain_input_queue(k, bad))
  /\ WF_vars(\E decodes \in BOOLEAN : emit_record(decodes))

\* in addition, a bgpstream_di_mgr_get_queue that does not block returns
BoundedFairSpec ==
  /\ FairSpec
  /\ WF_vars(/\ ~di_mgr.blocking
             /\ \/ di_mgr_get_queue_error
                \/ di_mgr_get_queue_empty
                \/ \E n \in 1..NumFiles : di_mgr_get_queue_results(n))

(* -------------------------------- claims -------------------------------- *)

\* the public operations of each family, as op names them
FilterOps == {"add_filter", "add_rib_period_filter",
              "add_recent_interval_filter", "add_interval_filter"}

InterfaceOps == {"set_data_interface_option", "set_data_interface",
                 "set_live_mode"}

\* a step that is a call of one of the configuration functions
ConfigCall(names) == pc = "idle" /\ ncalls' = ncalls + 1 /\ op'[1] \in names

\* a step in which a running bgpstream_get_next_record returns
Returns == pc # "idle" /\ pc' = "idle"

\* the poll batch in which the descriptor of file f arrived
BatchOf(f) ==
  CHOOSE i \in 1..Len(batches) :
    f <= batches[i] /\ (i = 1 \/ f > batches[i - 1])

\* C1: the timestamps of the records delivered are non-decreasing, across
\* refill boundaries too: a record delivered from a batch polled later is
\* never earlier than the record delivered before it from a previous batch.
C1_MonotonicAcrossBatches ==
  (prev.file # 0 /\ last.file # 0 /\ BatchOf(prev.file) < BatchOf(last.file))
     => prev.ts <= last.ts

\* C2: a call of add_filter, add_rib_period_filter, add_recent_interval or
\* add_interval made while the status is not ALLOCATED leaves the filter set
\* and the live-mode flag as they were.
C2_FilterCallsRejected ==
  [][(ConfigCall(FilterOps) /\ status # "ALLOCATED")
        => (filter_mgr' = filter_mgr /\ di_mgr'.blocking = di_mgr.blocking)]_vars

\* C2 witness: a filter call was made on a started coordinator that holds an
\* interval and is not in live mode.
C2_Witness ==
  /\ op[1] \in FilterOps
  /\ bs = "live" /\ status = "ON"
  /\ Len(filter_mgr.intervals) = 1
  /\ ~di_mgr.blocking

\* C3: a call of set_data_interface, set_data_interface_option or
\* set_live_mode made while the status is not ALLOCATED leaves the selected
\* backend, its options and the live flag as they were.
C3_InterfaceCallsRejected ==
  [][(ConfigCall(InterfaceOps) /\ status # "ALLOCATED") => di_mgr' = di_mgr]_vars

\* C4: get_next_record called while the status is not ON returns -1 and
\* changes nothing: no poll, the queue, the reader set and the caller's
\* record are as before.
C4_WrongStatusChangesNothing ==
  [][(pc = "idle" /\ op'[1] = "get_next_record" /\ status # "ON")
        => /\ rc' = -1
           /\ pc' = "idle"
           /\ UNCHANGED <<filter_mgr, di_mgr, lifecycle>>
           /\ UNCHANGED stream]_vars

\* C4 witness: the call was refused on a coordinator that is not ON while
\* the caller's record still holds an earlier delivery and a reader is open.
C4_Witness ==
  /\ op[1] = "get_next_record" /\ pc = "idle"
  /\ bs = "live" /\ status = "ALLOCATED"
  /\ rc = -1
  /\ record.file # 0
  /\ reader_mgr.readers # {}

\* C5: a start issued in ALLOCATED ends in ON with result 0 exactly when the
\* validation returned 0 and the backend start succeeded; otherwise the
\* result is not 0 and the status is still ALLOCATED.
C5_StartOutcome ==
  [][(pc = "idle" /\ op'[1] = "start" /\ nstarts' = nstarts + 1
        /\ status = "ALLOCATED")
        => IF started'.valid = 0 /\ started'.di = "ok"
           THEN status' = "ON" /\ rc' = 0
           ELSE status' = "ALLOCATED" /\ rc' # 0]_vars

\* C5 witness: the first start of a coordinator failed in the backend, after
\* a successful validation.
C5_Witness ==
  /\ op[1] = "start" /\ nstarts = 1
  /\ started.valid = 0 /\ started.di = "failed"
  /\ status = "ALLOCATED" /\ rc = -1

\* C6: in bounded mode a running get_next_record returns 0 (end of stream)
\* exactly when it returns from a state with no reader and no queued
\* descriptor on a poll that gave no descriptor.
C6_EndOfStreamExactly ==
  [][(Returns /\ ~di_mgr.blocking)
        => (rc' = 0 <=> (/\ reader_mgr.readers = {}
                         /\ input_mgr = <<>>
                         /\ last_poll' = "EMPTY"))]_vars

\* C6 witness: a bounded stream ended after records were delivered.
C6_Witness ==
  /\ op[1] = "get_next_record" /\ pc = "idle" /\ status = "ON"
  /\ ~di_mgr.blocking
  /\ rc = 0
  /\ delivered # {}

\* C7: get_next_record returns ERROR for a failed poll only after 3
\* consecutive polls have returned ERROR.
C7_ErrorAfterThreePolls ==
  (op[1] = "get_next_record" /\ pc = "idle" /\ status = "ON"
     /\ rc = -1 /\ last_poll = "ERROR") => errs >= 3

\* the descriptor of file f waits in the input queue
InQueue(f) == \E i \in 1..Len(input_mgr) : input_mgr[i] = f

\* file f holds a record the filters admit
HasMatch(f) == NextMatch(filter_mgr, f, 1) <= Len(RecordTimes(f))

\* C8: in live mode a poll that gives no descriptor keeps the call waiting
\* and a running call never returns 0 (end of stream); once the backend has
\* returned the descriptor of a file that holds a matching record, the call
\* returns a record with 1, unless that file's reader fails.
C8_LiveNeverEnds ==
  /\ [][(Returns /\ di_mgr.blocking) => rc' # 0]_vars
  /\ [][(pc # "idle" /\ di_mgr.blocking /\ Len(slept') > Len(slept))
          => pc' = "get_queue"]_vars
  /\ \A f \in Files :
        (pc # "idle" /\ di_mgr.blocking /\ InQueue(f) /\ HasMatch(f))
           ~> (f \in failed \/ (pc = "idle" /\ rc = 1 /\ record.file # 0))

\* C8 witness: a live call waited on empty polls and then returned a record.
C8_Witness ==
  /\ op[1] = "get_next_record" /\ pc = "idle" /\ status = "ON"
  /\ di_mgr.blocking
  /\ call_slept
  /\ rc = 1
  /\ record.file # 0 /\ record.file \notin failed

\* 2 to the power n
RECURSIVE Pow2(_)
Pow2(n) == IF n = 0 THEN 1 ELSE 2 * Pow2(n - 1)

\* the smaller of two numbers
Min(a, b) == IF a <= b THEN a ELSE b

\* C9: the waits since the last non-empty poll start at 30 s, double after
\* each empty poll and never exceed 1 hour; the wait that comes next follows
\* the same rule, so that it is 30 s again after a non-empty poll.
C9_BackoffSequence ==
  /\ \A i \in 1..Len(slept) :
        slept[i] = Min(BACKOFF_MIN * Pow2(i - 1), BACKOFF_MAX)
  /\ \A i \in 1..(Len(slept) - 1) : slept[i] <= slept[i + 1]
  /\ di_mgr.backoff_time = Min(BACKOFF_MIN * Pow2(Len(slept)), BACKOFF_MAX)

\* C9 witness: a live call waited long enough to reach the maximum, after
\* an earlier batch had reset the wait.
C9_Witness ==
  /\ pc = "get_queue"
  /\ cursor > 0
  /\ Len(slept) >= 2
  /\ slept[1] = BACKOFF_MIN
  /\ slept[Len(slept)] = BACKOFF_MAX

\* every record of a file the backend returned and whose reader did not fail
\* was delivered, was rejected by the filters, or is still to come
NoRecordLost ==
  \A f \in 1..cursor : f \notin failed =>
    \A p \in 1..Len(RecordTimes(f)) :
       \/ <<f, p>> \in delivered \cup skipped
       \/ InQueue(f)
       \/ \E r \in reader_mgr.readers : r.file = f /\ r.pos <= p

\* the last call was a bgpstream_get_next_record that ran and returned v
Returned(v) ==
  op[1] = "get_next_record" /\ pc = "idle" /\ status = "ON" /\ rc = v

\* C10: a file that cannot be opened or decoded is dropped and nothing else
\* is lost.  The call returns -1 only on a failed poll and 0 only on an empty
\* poll with nothing queued, nothing open and the catalogue exhausted; every
\* record of the other returned files is delivered, rejected by the filters
\* (only records that do not match are), or still pending.
C10_FailedFileIsDropped ==
  /\ NoRecordLost
  /\ (bs = "live" /\ nstarts = 1) =>
        \A x \in skipped : ~FineMatch(filter_mgr, x[1], RecordTimes(x[1])[x[2]])
  /\ Returned(-1) => last_poll = "ERROR"
  /\ Returned(0) => /\ last_poll = "EMPTY"
                    /\ reader_mgr.readers = {} /\ input_mgr = <<>>
                    /\ cursor = NumFiles

\* C10 witness: the stream ended after a file could not be opened, and a
\* file of a later poll batch was delivered.
C10_Witness ==
  /\ Returned(0)
  /\ \E f \in failed : \E g \in Files \ failed :
        /\ \A p \in 1..Len(RecordTimes(f)) : <<f, p>> \notin delivered
        /\ BatchOf(f) < BatchOf(g)
        /\ \A p \in 1..Len(RecordTimes(g)) : <<g, p>> \in delivered

\* the place of a component in the order of construction
ComponentIndex(c) ==
  CHOOSE i \in 1..Len(Components) : Components[i] = c

\* C11: bgpstream_destroy releases all four components, in the reverse of
\* the order in which they were constructed: of two components, the one
\* released first was constructed last.
C11_ReverseConstructionOrder ==
  op[1] = "destroy" =>
    /\ Len(released) = Len(Components)
    /\ \A i, j \in 1..Len(released) :
          i < j => ComponentIndex(released[i]) > ComponentIndex(released[j])

\* a step that is a call of the named function on a coordinator in ALLOCATED
AllocatedCall(name) ==
  pc = "idle" /\ bs = "live" /\ status = "ALLOCATED"
    /\ ncalls' = ncalls + 1 /\ op'[1] = name

\* C12: add_interval_filter called in ALLOCATED appends the interval it was
\* given, sets the live flag when the end is FOREVER and leaves it alone
\* otherwise; while the coordinator lives, a live flag that is set stays set.
C12_IntervalAndLiveFlag ==
  /\ [][AllocatedCall("add_interval_filter")
          => /\ filter_mgr'.intervals =
                  Append(filter_mgr.intervals, <<op'[2], op'[3]>>)
             /\ filter_mgr'.filters = filter_mgr.filters
             /\ di_mgr'.blocking =
                  (di_mgr.blocking \/ op'[3] = BGPSTREAM_FOREVER)]_vars
  /\ [][(di_mgr.blocking /\ bs' = "live") => di_mgr'.blocking]_vars

\* C12 witness: a finite interval was added without setting the live flag,
\* then an open one, which set it.
C12_Witness ==
  /\ op = <<"add_interval_filter", 2, BGPSTREAM_FOREVER>>
  /\ status = "ALLOCATED"
  /\ filter_mgr.intervals = <<(<<2, 4>>), (<<2, BGPSTREAM_FOREVER>>)>>
  /\ di_mgr.blocking

\* C13: add_recent_interval_filter called in ALLOCATED with a specifier that
\* parses appends exactly one interval: ending at FOREVER, with the live
\* flag set, when islive; ending at "now", with the live flag unchanged,
\* otherwise.  With a specifier that does not parse it changes neither the
\* filter set nor the live flag.
C13_RecentInterval ==
  [][AllocatedCall("add_recent_interval_filter")
       => IF ~RecentParses(op'[2])
          THEN filter_mgr' = filter_mgr /\ di_mgr' = di_mgr
          ELSE IF op'[3] = "live"
          THEN /\ filter_mgr'.intervals =
                    Append(filter_mgr.intervals,
                           <<RecentStart, BGPSTREAM_FOREVER>>)
               /\ di_mgr'.blocking
          ELSE /\ filter_mgr'.intervals =
                    Append(filter_mgr.intervals, <<RecentStart, RecentEnd>>)
               /\ di_mgr'.blocking = di_mgr.blocking]_vars

\* C13 witness: a recent interval was added without live mode after one
\* whose specifier did not parse had left the filter set empty.
C13_Witness ==
  /\ op = <<"add_recent_interval_filter", "1h", "once">>
  /\ status = "ALLOCATED" /\ ncalls = 2
  /\ filter_mgr.intervals = <<(<<RecentStart, RecentEnd>>)>>
  /\ ~di_mgr.blocking

\* the tie-break key of the records of file f: collector name, RIB before
\* UPDATES, the insertion sequence of the file's reader
TieKey(f) == <<CollectorOrd(Collector(f)), TypeOrd(FileType(f)), seqs[f]>>

\* key a sorts before key b
KeyBefore(a, b) ==
  \E i \in 1..Len(a) : a[i] < b[i] /\ \A j \in 1..(i - 1) : a[j] = b[j]

\* C14: two delivered records with the same timestamp were delivered in
\* the order of (collector name, RIB before UPDATES, reader insertion
\* sequence), also when the descriptors of their files arrived in different
\* poll batches.
C14_TieBreakAcrossBatches ==
  \A t \in tied :
     BatchOf(t[1][1]) # BatchOf(t[2][1])
        => KeyBefore(TieKey(t[1][1]), TieKey(t[2][1]))

\* a step of a running call in which the data interface is polled
PollStep ==
  pc # "idle" /\ (last_poll' # last_poll \/ slept' # slept \/ cursor' # cursor)

\* a step of a running call in which descriptors are handed to the reader set
DrainStep == pc # "idle" /\ handed' # handed

\* C15: the data interface is polled only when the reader set and the input
\* queue are both empty, descriptors are handed to the reader set only when
\* it is empty, and a call that stands before the loops with a reader open
\* returns that reader's record without a poll and without a hand-over.
C15_LazyRefill ==
  /\ [][PollStep => (reader_mgr.readers = {} /\ input_mgr = <<>>)]_vars
  /\ [][DrainStep => reader_mgr.readers = {}]_vars
  /\ [][(pc = "loop" /\ reader_mgr.readers # {})
          => /\ pc' = "idle" /\ rc' = 1
             /\ ~PollStep /\ ~DrainStep
             /\ input_mgr' = input_mgr]_vars

\* C15 witness: a call that found the reader of an earlier call still open
\* returned its next record, with descriptors waiting in the queue and no
\* poll made.
C15_Witness ==
  /\ op[1] = "get_next_record" /\ pc = "idle" /\ rc = 1
  /\ last_poll = "none"
  /\ input_mgr # <<>>
  /\ prev.file = last.file /\ prev.pos < last.pos

\* the files of a sequence
Range(seq) == {seq[i] : i \in 1..Len(seq)}

\* a sequence of descriptors is in ascending key order, without repetition
KeyOrdered(seq) ==
  \A i, j \in 1..Len(seq) :
     i < j => (seq[i] # seq[j] /\ ~InputBefore(seq[j], seq[i]))

\* C16: every descriptor a poll returned is in the queue or was handed to
\* the reader set, never both and never twice; the queue and the hand-overs
\* are in ascending key order; and when a poll is issued nothing of the
\* earlier polls is still in the queue.
C16_HandedOnceInKeyOrder ==
  /\ Range(input_mgr) \cup Range(handed) = 1..cursor
  /\ Range(input_mgr) \cap Range(handed) = {}
  /\ KeyOrdered(handed \o input_mgr)
  /\ pc = "get_queue" => input_mgr = <<>>
  /\ Len(batches) >= 2 =>
        1..batches[Len(batches) - 1] \subseteq Range(handed)

\* C16 witness: a second poll was made after the two descriptors of the
\* first were handed over, and its descriptors were handed over too.
C16_Witness ==
  /\ Len(batches) = 2 /\ batches[1] = 2
  /\ handed = [i \in 1..batches[2] |-> i]
  /\ input_mgr = <<>>
  /\ delivered # {}

\* C17: in bounded mode every running bgpstream_get_next_record returns,
\* with 1, 0 or -1, also when the descriptors of consecutive polls all fail
\* to open.
C17_BoundedCallReturns ==
  (pc # "idle" /\ ~di_mgr.blocking) ~> (pc = "idle" /\ rc \in {1, 0, -1})

\* C17 witness: a bounded call made two polls of which no file could be
\* opened and returned on the third, empty one.
C17_Witness ==
  /\ op[1] = "get_next_record" /\ pc = "idle" /\ status = "ON"
  /\ ~di_mgr.blocking
  /\ call_batches = 2 /\ Len(batches) = 2
  /\ failed = 1..NumFiles
  /\ delivered = {}
  /\ last_poll = "EMPTY" /\ rc = 0

\* C18: the status of a living coordinator changes only from ALLOCATED to
\* ON and from ON to OFF.
C18_LifecycleOnlyForward ==
  [][(bs = "live" /\ status' # status)
        => \/ status = "ALLOCATED" /\ status' = "ON"
           \/ status = "ON" /\ status' = "OFF"]_vars

\* C19: a bgpstream_start whose filter validation fails returns the
\* validation's result without calling the backend start: the data
\* interface and the status are as before.
C19_ValidateBeforeBackend ==
  [][(pc = "idle" /\ op'[1] = "start" /\ nstarts' = nstarts + 1
        /\ FilterValidate(filter_mgr) # 0)
        => /\ rc' = FilterValidate(filter_mgr)
           /\ started'.di = "not_called"
           /\ di_mgr' = di_mgr
           /\ status' = status]_vars

\* C19 witness: a start was refused on a coordinator that holds a filter
\* but no interval; the backend is off.
C19_Witness ==
  /\ op[1] = "start" /\ rc = -1
  /\ started = [valid |-> -1, di |-> "not_called"]
  /\ status = "ALLOCATED"
  /\ filter_mgr.intervals = <<>> /\ filter_mgr.filters # {}
  /\ di_mgr.status = "OFF"

\* C20: after bgpstream_create there is a coordinator in ALLOCATED that
\* owns the four components, or none; and the cleanup of a failed
\* construction read no field that was never assigned.
C20_CreateCleanup ==
  op[1] = "create" =>
    /\ \/ /\ bs = "live" /\ status = "ALLOCATED"
          /\ owned = {Components[i] : i \in 1..Len(Components)}
       \/ bs # "live" /\ owned = {}
    /\ uninit = {}

====
